---- MODULE Spec2Model ----
(***************************************************************************)
(* Behavioural-signal extraction and feedback decay of the interview demo  *)
(* (src/src/App.jsx).  Landmark coordinates are normalised to [0,1] in the *)
(* program; here they are integers in thousandths (0.23 is 230).  Times    *)
(* are milliseconds; performance.now() and Date.now() are both read from   *)
(* the one variable clock (they differ by a fixed origin only).            *)
(***************************************************************************)
EXTENDS Integers, Sequences, FiniteSets, TLC

VARIABLES
    clock,                  \* the time both clocks read, in ms since mount
    latestFaceLandmarks,    \* results.multiFaceLandmarks: <<>> or <<face>>
    latestPoseLandmarks,    \* results.poseLandmarks: <<>> (undefined) or <<pose>>
    latestHandsLandmarks,   \* results.multiHandLandmarks: a sequence of hands
    lastHandPositions,      \* lastHandPositions.current
    feedbackTimers,         \* feedbackTimers.current, in key insertion order
    feedbackMsgs,           \* the React state handed to the display
    blinkCount, lastBlinkTime, blinkHistory, yawnCount, isYawning,
    pending,                \* requestAnimationFrame(drawLoop) callbacks not yet run
    awaiting,               \* drawLoop invocations awaiting send() of each provider
    camPc,                  \* the camera's onFrame: "idle" or the provider awaited
    cameraOn,               \* camera.start() called and camera.stop() not yet
    stalled,                \* providers that will deliver no further result
    stopped,                \* the effect cleanup has run
    afterStop,              \* history: a drawLoop started, a round of sends begun, after cleanup
    hist                    \* history of the run, read by the properties only

vars == <<clock, latestFaceLandmarks, latestPoseLandmarks, latestHandsLandmarks,
          lastHandPositions, feedbackTimers, feedbackMsgs,
          blinkCount, lastBlinkTime, blinkHistory, yawnCount, isYawning,
          pending, awaiting, camPc, cameraOn, stalled, stopped, afterStop, hist>>

(***************************************************************************)
(* Program constants.                                                      *)
(***************************************************************************)
BlinkThreshold == 230
BlinkDebounce == 300
BlinkWindow == 60000
YawnThreshold == 50
FeedbackTTL == 3000
NoseLow == 350
NoseHigh == 650
TiltThreshold == 100
MovementThreshold == 20000
BlinkRateLimit == 20
YawnLimit == 2

(***************************************************************************)
(* Bounds of the model.                                                    *)
(***************************************************************************)
MaxTime == 61000
MaxPending == 4
MaxLoops == 2
MaxRejections == 1
MaxYawnFrames == 7
MaxMalformedFrames == 4
MaxMalformedTime == 1204
MaxRateFrames == 23
MaxRateTime == 67000

MsgMoveRight == "Move slightly to your right."
MsgMoveLeft == "Move slightly to your left."
MsgLookLeft == "Looking left or off-screen"
MsgLookRight == "Looking right or off-screen"
MsgLeaning == "Sit straight, you're leaning."
MsgHands == "Avoid moving hands too much."
\* The two strings below hold an en dash in the program; it is written "-" here.
MsgBlink == "High blink rate detected - possible nervousness"
MsgYawn == "Yawning detected - possible drowsiness or low energy"

Messages ==
    {MsgMoveRight, MsgMoveLeft, MsgLookLeft, MsgLookRight,
     MsgLeaning, MsgHands, MsgBlink, MsgYawn}

Providers == {"face", "pose", "hands"}

Abs(n) == IF n < 0 THEN -n ELSE n

Pt(px, py) == [x |-> px, y |-> py]

(***************************************************************************)
(* Landmark sequences.  A face or a pose is a function from the landmark   *)
(* indices it holds to points; only the indices the core reads are kept.   *)
(***************************************************************************)
Face(ear, mouth, nose, iris) ==
    (1 :> Pt(nose, 500)) @@
    (13 :> Pt(500, 600)) @@ (14 :> Pt(500, 600 + mouth)) @@
    (159 :> Pt(400, 400)) @@ (145 :> Pt(400, 400 + ear)) @@
    (386 :> Pt(600, 400)) @@ (374 :> Pt(600, 400 + ear)) @@
    (133 :> Pt(450, 400)) @@ (33 :> Pt(350, 400)) @@ (468 :> Pt(450 - iris, 400)) @@
    (362 :> Pt(550, 400)) @@ (263 :> Pt(650, 400)) @@ (473 :> Pt(550 + iris, 400))

Pose(leftY, rightY) == (11 :> Pt(400, leftY)) @@ (12 :> Pt(600, rightY))

Has(landmarks, i) == i \in DOMAIN landmarks

(***************************************************************************)
(* Blink / yawn extractor.                                                 *)
(***************************************************************************)
getEAR(upper, lower) == Abs(upper.y - lower.y)

\* Faulty variant of distanceSq: the displacements are not squared.
distanceAbs(a, b) == Abs(a.x - b.x) + Abs(a.y - b.y)

\* distance(a, b), squared: the square root is compared through its square.
distanceSq(a, b) == (a.x - b.x) * (a.x - b.x) + (a.y - b.y) * (a.y - b.y)

\* avgEAR < blinkThreshold, with avgEAR = (leftEAR + rightEAR) / 2.
LowAperture(landmarks) ==
    getEAR(landmarks[159], landmarks[145]) + getEAR(landmarks[386], landmarks[374])
        < 2 * BlinkThreshold

\* mouthOpen > yawnThreshold.
MouthOpen(landmarks) ==
    distanceSq(landmarks[13], landmarks[14]) > YawnThreshold * YawnThreshold

BlinkFires(low, now, last) == low /\ now - last > BlinkDebounce

InWindow(now, t) == now - t < BlinkWindow

\* Faulty variant of YawnFires: level-triggered, the latch is not consulted.
YawnFiresLevel(open, latch) == open

YawnFires(open, latch) == open /\ ~latch

NextLatch(open, latch) ==
    IF open /\ ~latch THEN TRUE ELSE IF ~open THEN FALSE ELSE latch

detectBlinkAndYawn(c, landmarks, now) ==
    LET low == LowAperture(landmarks)
        fire == BlinkFires(low, now, c.lastBlinkTime)
        pushed == IF fire THEN Append(c.blinkHistory, now) ELSE c.blinkHistory
        open == MouthOpen(landmarks)
        yawn == YawnFires(open, c.isYawning)
    IN  [c EXCEPT
            !.blinkCount = IF fire THEN @ + 1 ELSE @,
            !.lastBlinkTime = IF fire THEN now ELSE @,
            !.blinkHistory = SelectSeq(pushed, LAMBDA t : InWindow(now, t)),
            !.yawnCount = IF yawn THEN @ + 1 ELSE @,
            !.isYawning = NextLatch(open, @)]

\* The part of detectBlinkAndYawn before it reads the mouth landmarks.
detectBlink(c, landmarks, now) ==
    LET fire == BlinkFires(LowAperture(landmarks), now, c.lastBlinkTime)
        pushed == IF fire THEN Append(c.blinkHistory, now) ELSE c.blinkHistory
    IN  [c EXCEPT
            !.blinkCount = IF fire THEN @ + 1 ELSE @,
            !.lastBlinkTime = IF fire THEN now ELSE @,
            !.blinkHistory = SelectSeq(pushed, LAMBDA t : InWindow(now, t))]

(***************************************************************************)
(* Classification of one frame (drawLoop and draw build the same list).    *)
(***************************************************************************)
\* noseTip.x against the fixed bounds.
NoseMsgs(face) ==
    IF face[1].x < NoseLow THEN <<MsgMoveRight>>
    ELSE IF face[1].x > NoseHigh THEN <<MsgMoveLeft>>
    ELSE <<>>

\* n / w as JavaScript computes it: a finite quotient (kept as the pair n, w),
\* or for w = 0 an infinity of n's sign, or NaN for 0 / 0.
QuotKind(n, w) ==
    IF w # 0 THEN "fin" ELSE IF n > 0 THEN "pinf" ELSE IF n < 0 THEN "ninf" ELSE "nan"

\* The kind of leftIrisPos + rightIrisPos.
SumKind(kl, kr) ==
    IF kl = "nan" \/ kr = "nan" THEN "nan"
    ELSE IF kl = "fin" THEN kr
    ELSE IF kr = "fin" THEN kl
    ELSE IF kl = kr THEN kl
    ELSE "nan"

\* Faulty variant of SumBelow: the bound itself counts as below.
SumAtMost(nl, wl, nr, wr, num) ==
    IF wl * wr > 0 THEN 100 * (nl * wr + nr * wl) <= num * (wl * wr)
    ELSE 100 * (nl * wr + nr * wl) >= num * (wl * wr)

\* nl / wl + nr / wr < num / 100, both widths non-zero.
SumBelow(nl, wl, nr, wr, num) ==
    IF wl * wr > 0 THEN 100 * (nl * wr + nr * wl) < num * (wl * wr)
    ELSE 100 * (nl * wr + nr * wl) > num * (wl * wr)

SumAbove(nl, wl, nr, wr, num) ==
    IF wl * wr > 0 THEN 100 * (nl * wr + nr * wl) > num * (wl * wr)
    ELSE 100 * (nl * wr + nr * wl) < num * (wl * wr)

\* avgIrisPos < 0.35 is leftIrisPos + rightIrisPos < 0.70; > 0.65 is > 1.30.
GazeMsgs(face) ==
    IF \A i \in {133, 33, 468, 362, 263, 473} : Has(face, i)
    THEN LET wl == face[33].x - face[133].x
             nl == face[468].x - face[133].x
             wr == face[263].x - face[362].x
             nr == face[473].x - face[362].x
             kind == SumKind(QuotKind(nl, wl), QuotKind(nr, wr))
         IN  IF kind = "nan" THEN <<>>
             ELSE IF kind = "ninf" THEN <<MsgLookLeft>>
             ELSE IF kind = "pinf" THEN <<MsgLookRight>>
             ELSE IF SumBelow(nl, wl, nr, wr, 70) THEN <<MsgLookLeft>>
             ELSE IF SumAbove(nl, wl, nr, wr, 130) THEN <<MsgLookRight>>
             ELSE <<>>
    ELSE <<>>

\* Faulty variant of FaceMsgs: the nose test is run again after the gaze test.
FaceMsgsRepeated(faces) ==
    IF Len(faces) > 0
    THEN NoseMsgs(faces[1]) \o GazeMsgs(faces[1]) \o NoseMsgs(faces[1])
    ELSE <<>>

FaceMsgs(faces) ==
    IF Len(faces) > 0 THEN NoseMsgs(faces[1]) \o GazeMsgs(faces[1]) ELSE <<>>

\* Faulty variant of PoseMsgs: the signed difference, not its absolute value.
PoseMsgsSigned(poses) ==
    IF Len(poses) > 0 /\ Has(poses[1], 11) /\ Has(poses[1], 12)
          /\ poses[1][11].y - poses[1][12].y > TiltThreshold
    THEN <<MsgLeaning>>
    ELSE <<>>

PoseMsgs(poses) ==
    IF Len(poses) > 0 /\ Has(poses[1], 11) /\ Has(poses[1], 12)
          /\ Abs(poses[1][11].y - poses[1][12].y) > TiltThreshold
    THEN <<MsgLeaning>>
    ELSE <<>>

\* lastHandPositions.current[i]?.[j]?.x || 0 (and .y).
PrevCoord(last, i, j) ==
    IF i <= Len(last) /\ j <= Len(last[i]) THEN last[i][j] ELSE Pt(0, 0)

RECURSIVE HandMovement(_, _, _, _)
\* The inner loop over the landmarks j..Len(current[i]) of hand i.
HandMovement(current, last, i, j) ==
    IF j > Len(current[i]) THEN 0
    ELSE distanceSq(current[i][j], PrevCoord(last, i, j))
            + HandMovement(current, last, i, j + 1)

RECURSIVE movementEnergy(_, _, _)
\* The outer loop over the hands i..Len(current).
movementEnergy(current, last, i) ==
    IF i > Len(current) THEN 0
    ELSE HandMovement(current, last, i, 1) + movementEnergy(current, last, i + 1)

HandMsgs(handsNow, last) ==
    IF Len(handsNow) > 0 /\ Len(last) > 0
          /\ movementEnergy(handsNow, last, 1) > MovementThreshold
    THEN <<MsgHands>>
    ELSE <<>>

\* Faulty variant of NextHandPositions: a frame with no hands clears the
\* stored positions.
NextHandPositionsAlways(handsNow, last) == handsNow

NextHandPositions(handsNow, last) == IF Len(handsNow) > 0 THEN handsNow ELSE last

BlinkMsgs(c) == IF Len(c.blinkHistory) > BlinkRateLimit THEN <<MsgBlink>> ELSE <<>>

\* Faulty variant of YawnMsgs: the message from the second yawn on.
YawnMsgsInclusive(c) == IF c.yawnCount >= YawnLimit THEN <<MsgYawn>> ELSE <<>>

YawnMsgs(c) == IF c.yawnCount > YawnLimit THEN <<MsgYawn>> ELSE <<>>

\* currentFeedbacks, from the snapshots and the state detectBlinkAndYawn left.
currentFeedbacks(c, faces, poses, handsNow) ==
    FaceMsgs(faces) \o PoseMsgs(poses) \o HandMsgs(handsNow, c.lastHandPositions)
        \o BlinkMsgs(c) \o YawnMsgs(c)

(***************************************************************************)
(* Message decay store.  feedbackTimers is a sequence of [msg, expiry] in  *)
(* the object's key order: an overwritten key keeps its place, a new key   *)
(* goes last.                                                              *)
(***************************************************************************)
Rearm(now) == now + FeedbackTTL

\* Faulty variants of Expired: entries kept one time to live too long; entries
\* dropped unless re-armed at this very update; entries dropped at their expiry.
ExpiredLate(expiry, now) == expiry + FeedbackTTL < now

ExpiredEager(expiry, now) == expiry < now + FeedbackTTL

ExpiredInclusive(expiry, now) == expiry <= now

Expired(expiry, now) == expiry < now

KeyIndex(timers, msg) ==
    IF \E i \in 1..Len(timers) : timers[i].msg = msg
    THEN CHOOSE i \in 1..Len(timers) : timers[i].msg = msg
    ELSE 0

\* Faulty variant of SetTimer: a tracked key has its expiry extended, not reset.
SetTimerStacked(timers, msg, expiry) ==
    IF KeyIndex(timers, msg) = 0
    THEN Append(timers, [msg |-> msg, expiry |-> expiry])
    ELSE [timers EXCEPT ![KeyIndex(timers, msg)].expiry = @ + FeedbackTTL]

SetTimer(timers, msg, expiry) ==
    IF KeyIndex(timers, msg) = 0
    THEN Append(timers, [msg |-> msg, expiry |-> expiry])
    ELSE [timers EXCEPT ![KeyIndex(timers, msg)].expiry = expiry]

RECURSIVE RearmAll(_, _, _)
\* for (const msg of newMsgs) updated[msg] = now + 3000
RearmAll(timers, newMsgs, now) ==
    IF newMsgs = <<>> THEN timers
    ELSE RearmAll(SetTimer(timers, Head(newMsgs), Rearm(now)), Tail(newMsgs), now)

\* for (const msg in updated) if (updated[msg] < now) delete updated[msg]
Prune(timers, now) == SelectSeq(timers, LAMBDA e : ~Expired(e.expiry, now))

Keys(timers) == [i \in 1..Len(timers) |-> timers[i].msg]

\* Faulty variant of updateMessages: the display gets the keys as they were
\* before the pruning.
updateMessagesUnpruned(c, newMsgs, now) ==
    LET armed == RearmAll(c.feedbackTimers, newMsgs, now)
    IN  [c EXCEPT !.feedbackTimers = Prune(armed, now), !.feedbackMsgs = Keys(armed)]

updateMessages(c, newMsgs, now) ==
    LET updated == Prune(RearmAll(c.feedbackTimers, newMsgs, now), now)
    IN  [c EXCEPT !.feedbackTimers = updated, !.feedbackMsgs = Keys(updated)]

(***************************************************************************)
(* The core state as one record, so that a handler that runs the frame     *)
(* body twice (a callback's draw followed by drawLoop's own body) composes.*)
(***************************************************************************)
Core ==
    [blinkCount |-> blinkCount, lastBlinkTime |-> lastBlinkTime,
     blinkHistory |-> blinkHistory, yawnCount |-> yawnCount, isYawning |-> isYawning,
     lastHandPositions |-> lastHandPositions,
     feedbackTimers |-> feedbackTimers, feedbackMsgs |-> feedbackMsgs,
     hist |-> hist]

SetCore(c) ==
    /\ blinkCount' = c.blinkCount
    /\ lastBlinkTime' = c.lastBlinkTime
    /\ blinkHistory' = c.blinkHistory
    /\ yawnCount' = c.yawnCount
    /\ isYawning' = c.isYawning
    /\ lastHandPositions' = c.lastHandPositions
    /\ feedbackTimers' = c.feedbackTimers
    /\ feedbackMsgs' = c.feedbackMsgs
    /\ hist' = c.hist

Snap ==
    [face |-> latestFaceLandmarks, pose |-> latestPoseLandmarks,
     hands |-> latestHandsLandmarks]

SetSnap(s) ==
    /\ latestFaceLandmarks' = s.face
    /\ latestPoseLandmarks' = s.pose
    /\ latestHandsLandmarks' = s.hands

Range(seq) == {seq[i] : i \in 1..Len(seq)}

LastTwo(seq) == IF Len(seq) > 2 THEN Tail(seq) ELSE seq

\* What one frame body adds to the history: c before it, c1 after
\* detectBlinkAndYawn, msgs the classifier output, now the time it read.
Record(h, c, c1, faces, msgs, now) ==
    LET seen == Len(faces) > 0
        low == seen /\ LowAperture(faces[1])
        open == seen /\ MouthOpen(faces[1])
    IN  [h EXCEPT
            !.updNow = now,
            !.lastOutput = msgs,
            !.lastEmit = [m \in DOMAIN @ \cup Range(msgs) |->
                             IF m \in Range(msgs) THEN now ELSE @[m]],
            !.prevTimers = c.feedbackTimers,
            !.prevHands = c.lastHandPositions,
            !.lowFrames =
                IF low
                THEN LastTwo(Append(@, [t |-> now, before |-> c.blinkCount,
                                        after |-> c1.blinkCount]))
                ELSE @,
            !.allBlinks = IF c1.blinkCount > c.blinkCount THEN Append(@, now) ELSE @,
            !.runs = IF open /\ h.runLen = 0 THEN @ + 1 ELSE @,
            !.runLen = IF open THEN (IF @ < 3 THEN @ + 1 ELSE @) ELSE IF seen THEN 0 ELSE @]

(***************************************************************************)
(* The frame body shared by draw and drawLoop: detectBlinkAndYawn when a   *)
(* face is present, the classification, the hand positions, the decay      *)
(* store.                                                                  *)
(***************************************************************************)
EyePoints == {159, 145, 386, 374}

MouthPoints == {13, 14}

\* The frame body throws a TypeError: getEAR or distance reads .y of a
\* landmark the face does not hold, or the body reads noseTip.x of none.
Throws(s) ==
    /\ Len(s.face) > 0
    /\ ~(\A i \in EyePoints \cup MouthPoints \cup {1} : Has(s.face[1], i))

\* The state a throwing frame body leaves: nothing changed when getEAR threw,
\* the blink state updated when distance threw, the blink and yawn state
\* updated when noseTip.x threw; in no case the hand positions, the decay
\* store or the history of completed frames.
Thrown(c, s, now) ==
    IF ~(\A i \in EyePoints : Has(s.face[1], i)) THEN c
    ELSE IF ~(\A i \in MouthPoints : Has(s.face[1], i))
    THEN detectBlink(c, s.face[1], now)
    ELSE detectBlinkAndYawn(c, s.face[1], now)

Tick(c, s, now) ==
    IF Throws(s) THEN Thrown(c, s, now) ELSE
    LET c1 == IF Len(s.face) > 0 THEN detectBlinkAndYawn(c, s.face[1], now) ELSE c
        msgs == currentFeedbacks(c1, s.face, s.pose, s.hands)
        c2 == [c1 EXCEPT !.lastHandPositions = NextHandPositions(s.hands, @)]
        c3 == updateMessages(c2, msgs, now)
    IN  [c3 EXCEPT !.hist = Record(c.hist, c, c1, s.face, msgs, now)]

InitHist ==
    [updNow |-> -1, lastOutput |-> <<>>, lastEmit |-> <<>>,
     prevTimers |-> <<>>, lowFrames |-> <<>>, allBlinks |-> <<>>,
     runs |-> 0, runLen |-> 0, rejections |-> 0, prevHands |-> <<>>]

Init ==
    /\ clock = 0
    /\ latestFaceLandmarks = <<>>
    /\ latestPoseLandmarks = <<>>
    /\ latestHandsLandmarks = <<>>
    /\ lastHandPositions = <<>>
    /\ feedbackTimers = <<>>
    /\ feedbackMsgs = <<>>
    /\ blinkCount = 0
    /\ lastBlinkTime = 0
    /\ blinkHistory = <<>>
    /\ yawnCount = 0
    /\ isYawning = FALSE
    /\ pending = 0
    /\ awaiting = [p \in Providers |-> 0]
    /\ camPc = "idle"
    /\ cameraOn = TRUE
    /\ stalled = {}
    /\ stopped = FALSE
    /\ afterStop = [tick |-> FALSE, send |-> FALSE]
    /\ hist = InitHist

(***************************************************************************)
(* A provider's result callback (onFaceMeshResults, onPoseResults,         *)
(* onHandsResults): store the snapshot, then draw(), which runs the frame  *)
(* body and requests an animation frame for drawLoop.  d is the time       *)
(* passed since the previous handler ran.                                  *)
(***************************************************************************)
draw(c, s, now) == Tick(c, s, now)

Callback(p, results, d) ==
    /\ clock' = clock + d
    /\ SetSnap([Snap EXCEPT ![p] = results])
    /\ SetCore(draw(Core, [Snap EXCEPT ![p] = results], clock + d))
    /\ pending' = IF Throws([Snap EXCEPT ![p] = results]) THEN pending ELSE pending + 1

OnResults(p, results, d) ==
    /\ pending < MaxPending
    /\ clock + d <= MaxTime
    /\ Callback(p, results, d)

OnFaceMeshResults(results, d) ==
    /\ OnResults("face", results, d)
    /\ UNCHANGED <<awaiting, camPc, cameraOn, stalled, stopped, afterStop>>

OnPoseResults(results, d) ==
    /\ OnResults("pose", results, d)
    /\ UNCHANGED <<awaiting, camPc, cameraOn, stalled, stopped, afterStop>>

OnHandsResults(results, d) ==
    /\ OnResults("hands", results, d)
    /\ UNCHANGED <<awaiting, camPc, cameraOn, stalled, stopped, afterStop>>

(***************************************************************************)
(* The decay store driven by frames: the pose and the nose position switch *)
(* two messages on and off, at gaps around the 3000 ms time to live.       *)
(***************************************************************************)
DecaySteps == {0, 1, 2999, 3000, 3001}

DecayFaces == {<<>>, <<Face(230, 0, 200, 50)>>}

DecayPoses == {<<>>, <<Pose(400, 550)>>, <<Pose(400, 450)>>}

NextDecay ==
    \/ \E r \in DecayFaces, d \in DecaySteps : OnFaceMeshResults(r, d)
    \/ \E r \in DecayPoses, d \in DecaySteps : OnPoseResults(r, d)

SpecDecay == Init /\ [][NextDecay]_vars

(***************************************************************************)
(* Properties of the decay store.                                          *)
(***************************************************************************)
Visible == Range(feedbackMsgs)

Tracked == {feedbackTimers[i].msg : i \in 1..Len(feedbackTimers)}

ExpiryOf(timers, m) == timers[KeyIndex(timers, m)].expiry

Updated == hist.updNow >= 0

\* C1: after an update at time now, no message whose stored expiry is earlier
\* than now is tracked, and every message handed to the display is tracked
\* with an expiry not earlier than now.
C1_NoExpiredVisible ==
    Updated =>
        /\ \A i \in 1..Len(feedbackTimers) : feedbackTimers[i].expiry >= hist.updNow
        /\ \A m \in Visible :
              m \in Tracked /\ ExpiryOf(feedbackTimers, m) >= hist.updNow

\* An update has just dropped a message whose expiry had passed.
C1_Witness ==
    /\ Updated
    /\ \E i \in 1..Len(hist.prevTimers) :
          /\ hist.prevTimers[i].expiry < hist.updNow
          /\ hist.prevTimers[i].msg \notin Range(hist.lastOutput)
          /\ hist.prevTimers[i].msg \notin Visible

\* C2 as stated: a message last emitted at t0 is absent from the visible set
\* after every update at a time of at least t0 + 3000.
C2_GoneFromTTL ==
    Updated =>
        \A m \in DOMAIN hist.lastEmit :
            hist.updNow - hist.lastEmit[m] >= FeedbackTTL => m \notin Visible

\* C2 amended: a message last emitted at t0 is absent after every update at a
\* time later than t0 + 3000, and is still visible after an update at exactly
\* t0 + 3000.
C2_GoneAfterTTL ==
    Updated =>
        \A m \in DOMAIN hist.lastEmit :
            /\ hist.updNow - hist.lastEmit[m] > FeedbackTTL => m \notin Visible
            /\ hist.updNow - hist.lastEmit[m] = FeedbackTTL => m \in Visible

\* An update later than t0 + 3000 has just removed a message that was visible.
C2_Witness ==
    /\ Updated
    /\ \E m \in DOMAIN hist.lastEmit :
          /\ hist.updNow - hist.lastEmit[m] > FeedbackTTL
          /\ m \in {hist.prevTimers[i].msg : i \in 1..Len(hist.prevTimers)}
          /\ m \notin Visible

\* C3: a message is visible after every update less than 3000 ms after an
\* update that emitted it.
C3_VisibleWithinTTL ==
    Updated =>
        \A m \in DOMAIN hist.lastEmit :
            hist.updNow - hist.lastEmit[m] < FeedbackTTL => m \in Visible

\* A message not emitted by this update, emitted less than 3000 ms ago, is
\* still visible.
C3_Witness ==
    /\ Updated
    /\ \E m \in DOMAIN hist.lastEmit :
          /\ hist.lastEmit[m] < hist.updNow
          /\ hist.updNow - hist.lastEmit[m] < FeedbackTTL
          /\ m \in Visible

\* C4: every message of the classifier output has, after the update at time
\* now, the expiry now + 3000 exactly.
C4_RearmExact ==
    Updated =>
        \A m \in Range(hist.lastOutput) :
            m \in Tracked /\ ExpiryOf(feedbackTimers, m) = hist.updNow + FeedbackTTL

\* A message that was tracked with an earlier expiry has been re-armed.
C4_Witness ==
    /\ Updated
    /\ \E i \in 1..Len(hist.prevTimers) :
          /\ hist.prevTimers[i].msg \in Range(hist.lastOutput)
          /\ hist.prevTimers[i].expiry > hist.updNow
          /\ hist.prevTimers[i].expiry < hist.updNow + FeedbackTTL
          /\ ExpiryOf(feedbackTimers, hist.prevTimers[i].msg) = hist.updNow + FeedbackTTL

(***************************************************************************)
(* The blink / yawn extractor driven by face frames: apertures on both     *)
(* sides of the threshold, the mouth open and closed, the face lost, at    *)
(* gaps around the 300 ms debounce and the 60000 ms window.                *)
(***************************************************************************)
BlinkSteps == {100, 299, 300, 301, 59999, 60001}

BlinkFaces == {<<>>, <<Face(229, 50, 500, 50)>>, <<Face(230, 50, 500, 50)>>}

NextBlink == \E r \in BlinkFaces, d \in BlinkSteps : OnFaceMeshResults(r, d)

SpecBlink == Init /\ [][NextBlink]_vars

YawnFaces == {<<>>, <<Face(230, 50, 500, 50)>>, <<Face(230, 51, 500, 50)>>}

NextYawn == \E r \in YawnFaces, d \in {0, 100} : OnFaceMeshResults(r, d)

SpecYawn == Init /\ [][NextYawn]_vars

\* The blinks pushed onto blinkHistory at or after time t that are still in it.
PushedSince(t) == Cardinality({i \in 1..Len(blinkHistory) : blinkHistory[i] >= t})

\* C5: of two successive processed face frames with a low aperture, less than
\* 300 ms apart, exactly one is counted as a blink (in blinkCount and in
\* blinkHistory); 301 ms apart, both are.
C5_DebouncePair ==
    Len(hist.lowFrames) = 2 =>
        LET a == hist.lowFrames[1]
            b == hist.lowFrames[2]
        IN  /\ b.t - a.t < BlinkDebounce =>
                  b.after - a.before = 1 /\ PushedSince(a.t) = 1
            /\ b.t - a.t = BlinkDebounce + 1 =>
                  b.after - a.before = 2 /\ PushedSince(a.t) = 2

\* C6: after every frame at time T, the length of blinkHistory is the number
\* of counted blinks with a timestamp t such that T - t < 60000.
C6_WindowedCount ==
    Updated =>
        Len(blinkHistory) =
            Cardinality({i \in 1..Len(hist.allBlinks) :
                            hist.updNow - hist.allBlinks[i] < BlinkWindow})

\* C7: the yawn counter equals the number of runs of successive processed
\* face frames with the mouth open that have begun: one increment per run, on
\* its first frame, and none elsewhere; the latch is set throughout a run.
C7_YawnOncePerRun ==
    /\ yawnCount = hist.runs
    /\ hist.runLen >= 1 => isYawning

\* A second run, already two frames long, after a closed-mouth frame cleared
\* the latch: two yawns counted.
C7_Witness == hist.runs = 2 /\ hist.runLen >= 2 /\ yawnCount = 2

(***************************************************************************)
(* The frame loop.  The camera calls onFrame while it runs; onFrame and    *)
(* processFrame send the frame to the three providers in turn, awaiting    *)
(* each; a provider answers a send by calling its result callback and then *)
(* resolving the promise, unless it has stalled.  Every draw and every     *)
(* drawLoop requests an animation frame for drawLoop.                      *)
(***************************************************************************)
NextProvider(p) == IF p = "face" THEN "pose" ELSE IF p = "pose" THEN "hands" ELSE "idle"

InFlight == awaiting["face"] + awaiting["pose"] + awaiting["hands"]

\* The camera starts onFrame: await faceMesh.send(...).
CameraFrame ==
    /\ cameraOn
    /\ camPc = "idle"
    /\ camPc' = "face"
    /\ UNCHANGED <<clock, latestFaceLandmarks, latestPoseLandmarks,
                   latestHandsLandmarks, lastHandPositions, feedbackTimers,
                   feedbackMsgs, blinkCount, lastBlinkTime, blinkHistory, yawnCount,
                   isYawning, pending, awaiting, cameraOn, stalled, stopped,
                   afterStop, hist>>

\* Provider p answers onFrame's send: the callback runs, onFrame goes on to
\* the next send or returns.
CameraDeliver(p, results, d) ==
    /\ camPc = p
    /\ p \notin stalled
    /\ OnResults(p, results, d)
    /\ camPc' = NextProvider(p)
    /\ UNCHANGED <<awaiting, cameraOn, stalled, stopped, afterStop>>

\* An animation frame runs drawLoop.  ready is videoRef.current.readyState >= 2:
\* processFrame then awaits faceMesh.send; otherwise it returns at once and
\* drawLoop runs its body and requests the next frame.
DrawLoopStart(ready, d) ==
    /\ pending > 0
    /\ clock + d <= MaxTime
    /\ clock' = clock + d
    /\ afterStop' = [tick |-> afterStop.tick \/ stopped,
                     send |-> afterStop.send \/ (stopped /\ ready)]
    /\ IF ready
       THEN /\ InFlight < MaxLoops
            /\ pending' = pending - 1
            /\ awaiting' = [awaiting EXCEPT !["face"] = @ + 1]
            /\ UNCHANGED <<latestFaceLandmarks, latestPoseLandmarks,
                           latestHandsLandmarks, lastHandPositions, feedbackTimers,
                           feedbackMsgs, blinkCount, lastBlinkTime, blinkHistory,
                           yawnCount, isYawning, hist>>
       ELSE /\ SetCore(Tick(Core, Snap, clock + d))
            /\ pending' = IF Throws(Snap) THEN pending - 1 ELSE pending
            /\ UNCHANGED <<awaiting, latestFaceLandmarks,
                           latestPoseLandmarks, latestHandsLandmarks>>
    /\ UNCHANGED <<camPc, cameraOn, stalled, stopped>>

\* Provider p answers a send of processFrame: the callback runs, then
\* processFrame goes on to the next send.
LoopDeliver(p, results, d) ==
    /\ p # "hands"
    /\ awaiting[p] > 0
    /\ p \notin stalled
    /\ OnResults(p, results, d)
    /\ awaiting' = [awaiting EXCEPT ![p] = @ - 1, ![NextProvider(p)] = @ + 1]
    /\ UNCHANGED <<camPc, cameraOn, stalled, stopped, afterStop>>

\* The hands provider answers the last send of processFrame: the callback
\* runs (with its draw), then drawLoop runs its body and requests the next
\* animation frame.  A body that throws requests none; whether the send then
\* resolves or rejects, the state left is the same.
LoopFinish(results, d) ==
    /\ awaiting["hands"] > 0
    /\ "hands" \notin stalled
    /\ pending + 1 < MaxPending
    /\ clock + d <= MaxTime
    /\ clock' = clock + d
    /\ SetSnap([Snap EXCEPT !["hands"] = results])
    /\ SetCore(Tick(draw(Core, [Snap EXCEPT !["hands"] = results], clock + d),
                    [Snap EXCEPT !["hands"] = results], clock + d))
    /\ pending' = IF Throws(Snap) THEN pending ELSE pending + 2
    /\ awaiting' = [awaiting EXCEPT !["hands"] = @ - 1]
    /\ UNCHANGED <<camPc, cameraOn, stalled, stopped, afterStop>>

\* Provider p rejects a send of processFrame: the await throws, processFrame
\* and drawLoop have no try / catch, so this drawLoop invocation ends there:
\* its body, updateMessages and requestAnimationFrame are not reached.
LoopReject(p) ==
    /\ awaiting[p] > 0
    /\ p \notin stalled
    /\ hist.rejections < MaxRejections
    /\ awaiting' = [awaiting EXCEPT ![p] = @ - 1]
    /\ hist' = [hist EXCEPT !.rejections = @ + 1]
    /\ UNCHANGED <<clock, latestFaceLandmarks, latestPoseLandmarks,
                   latestHandsLandmarks, lastHandPositions, feedbackTimers,
                   feedbackMsgs, blinkCount, lastBlinkTime, blinkHistory, yawnCount,
                   isYawning, pending, camPc, cameraOn, stalled, stopped, afterStop>>

\* Provider p stalls: it answers no send from now on.
Stall(p) ==
    /\ p \notin stalled
    /\ stalled' = stalled \cup {p}
    /\ UNCHANGED <<clock, latestFaceLandmarks, latestPoseLandmarks,
                   latestHandsLandmarks, lastHandPositions, feedbackTimers,
                   feedbackMsgs, blinkCount, lastBlinkTime, blinkHistory, yawnCount,
                   isYawning, pending, awaiting, camPc, cameraOn, stopped,
                   afterStop, hist>>

\* The effect cleanup: if (camera) camera.stop().
Stop ==
    /\ ~stopped
    /\ stopped' = TRUE
    /\ cameraOn' = FALSE
    /\ UNCHANGED <<clock, latestFaceLandmarks, latestPoseLandmarks,
                   latestHandsLandmarks, lastHandPositions, feedbackTimers,
                   feedbackMsgs, blinkCount, lastBlinkTime, blinkHistory, yawnCount,
                   isYawning, pending, awaiting, camPc, stalled, afterStop, hist>>

Hand(px) == <<Pt(px, 500), Pt(px + 50, 500)>>

LoopSteps == {0, 30000}

LoopResults(p) ==
    IF p = "face" THEN {<<>>, <<Face(229, 51, 200, 50)>>}
    ELSE IF p = "pose" THEN {<<Pose(400, 550)>>}
    ELSE {<<Hand(300)>>}

Next ==
    \/ CameraFrame
    \/ \E p \in Providers, d \in LoopSteps :
          \E r \in LoopResults(p) : CameraDeliver(p, r, d)
    \/ \E ready \in BOOLEAN, d \in LoopSteps : DrawLoopStart(ready, d)
    \/ \E p \in Providers, d \in LoopSteps :
          \E r \in LoopResults(p) : LoopDeliver(p, r, d)
    \/ \E d \in LoopSteps : \E r \in LoopResults("hands") : LoopFinish(r, d)
    \/ \E p \in Providers : Stall(p)
    \/ Stop

Spec == Init /\ [][Next]_vars

\* C8: at most one tick is running or scheduled at any time.
C8_SingleTickSequence == pending + InFlight <= 1

\* C9: once the cleanup has run, no drawLoop invocation starts and processFrame
\* begins no new round of provider calls (a round in flight may finish).
C9_HaltsAfterStop == ~afterStop.tick /\ ~afterStop.send

\* C10: a tick is never left waiting for a provider that delivers no result.
C10_TickNeverBlocks == \A p \in Providers : awaiting[p] > 0 => p \notin stalled

(***************************************************************************)
(* The frame loop with providers that may reject a send.                   *)
(***************************************************************************)
NextReject ==
    \/ CameraFrame
    \/ \E p \in Providers, d \in LoopSteps :
          \E r \in LoopResults(p) : CameraDeliver(p, r, d)
    \/ \E ready \in BOOLEAN, d \in LoopSteps : DrawLoopStart(ready, d)
    \/ \E p \in Providers, d \in LoopSteps :
          \E r \in LoopResults(p) : LoopDeliver(p, r, d)
    \/ \E d \in LoopSteps : \E r \in LoopResults("hands") : LoopFinish(r, d)
    \/ \E p \in Providers : LoopReject(p)

SpecReject == Init /\ [][NextReject]_vars

\* C11: the step in which a provider rejects a send of a tick leaves the decay
\* store and the visible messages unchanged and schedules the next tick.
C11_RejectionKeepsLoop ==
    [][hist'.rejections > hist.rejections =>
          /\ feedbackTimers' = feedbackTimers
          /\ feedbackMsgs' = feedbackMsgs
          /\ pending' = pending + 1]_vars

(***************************************************************************)
(* A longer run of face results: the mouth opens and closes                *)
(* often enough for three yawns, and the face can be lost afterwards.      *)
(***************************************************************************)
FaceFrame(results, d, maxFrames, maxTime) ==
    /\ pending < maxFrames
    /\ clock + d <= maxTime
    /\ Callback("face", results, d)
    /\ UNCHANGED <<awaiting, camPc, cameraOn, stalled, stopped, afterStop>>

SessionSteps == {100, 3001}

NextSession ==
    \E r \in YawnFaces, d \in SessionSteps : FaceFrame(r, d, MaxYawnFrames, MaxTime)

SpecSession == Init /\ [][NextSession]_vars

FaceMessages ==
    {MsgMoveRight, MsgMoveLeft, MsgLookLeft, MsgLookRight, MsgBlink, MsgYawn}

\* C12: the output of a frame computed with no face holds none of the
\* head-position, gaze, blink-rate and yawn messages; with no pose it does
\* not hold the posture message; with no hands, not the hand message.
C12_AbsentSnapshotSilent ==
    Updated =>
        /\ latestFaceLandmarks = <<>> =>
              Range(hist.lastOutput) \cap FaceMessages = {}
        /\ latestPoseLandmarks = <<>> => MsgLeaning \notin Range(hist.lastOutput)
        /\ latestHandsLandmarks = <<>> => MsgHands \notin Range(hist.lastOutput)

(***************************************************************************)
(* Face results that hold fewer landmarks than the frame body reads: no    *)
(* mouth points, no nose tip, no eye and iris points for the gaze, no      *)
(* points at all.                                                          *)
(***************************************************************************)
Without(landmarks, gone) == [i \in DOMAIN landmarks \ gone |-> landmarks[i]]

GazePoints == {133, 33, 468, 362, 263, 473}

MalformedFaces ==
    {<<Face(229, 51, 200, 20)>>,
     <<Without(Face(229, 51, 200, 20), GazePoints)>>,
     <<Without(Face(229, 51, 200, 20), MouthPoints)>>,
     <<Without(Face(229, 51, 200, 20), {1})>>,
     <<Without(Face(229, 51, 200, 20), DOMAIN Face(229, 51, 200, 20))>>}

MalformedSteps == {0, 301}

NextMalformed ==
    \E r \in MalformedFaces, d \in MalformedSteps :
        FaceFrame(r, d, MaxMalformedFrames, MaxMalformedTime)

SpecMalformed == Init /\ [][NextMalformed]_vars

Lacks(faces, points) == Len(faces) > 0 /\ ~(\A i \in points : Has(faces[1], i))

\* C13: every result callback (every step here is one) completes its frame:
\* the decay store is updated at the time of the frame and the next frame is
\* requested; a face that lacks the nose tip adds no head-position message
\* and a face that lacks a gaze point adds no gaze message.
C13_MalformedCompletes ==
    [][/\ hist'.updNow = clock'
       /\ pending' = pending + 1
       /\ Lacks(latestFaceLandmarks', {1}) =>
             Range(hist'.lastOutput) \cap {MsgMoveRight, MsgMoveLeft} = {}
       /\ Lacks(latestFaceLandmarks', GazePoints) =>
             Range(hist'.lastOutput) \cap {MsgLookLeft, MsgLookRight} = {}]_vars

(***************************************************************************)
(* Hand results: one hand of two landmarks that rests, or moves its second *)
(* landmark by distances on both sides of the threshold (0.141, 0.142, and *)
(* (0.1, 0.1), whose energy is 0.02 exactly); a second hand that appears;  *)
(* no hand.                                                                *)
(***************************************************************************)
HandTo(px, py) == <<Pt(300, 500), Pt(px, py)>>

HandSnapshots ==
    {<<>>, <<HandTo(350, 500)>>, <<HandTo(350, 641)>>, <<HandTo(350, 642)>>,
     <<HandTo(450, 600)>>, <<HandTo(350, 500), Hand(600)>>}

NextHands == \E r \in HandSnapshots : OnHandsResults(r, 100)

SpecHands == Init /\ [][NextHands]_vars

SameShape(a, b) ==
    /\ Len(a) = Len(b)
    /\ \A i \in 1..Len(a) : Len(a[i]) = Len(b[i])

\* The landmarks (hand i, landmark j) at which two snapshots of one shape differ.
Moved(a, b) ==
    {ij \in {<<i, j>> : i \in 1..Len(a), j \in 1..2} :
        ij[2] <= Len(a[ij[1]]) /\ a[ij[1]][ij[2]] # b[ij[1]][ij[2]]}

HandsCompared ==
    /\ Updated
    /\ Len(latestHandsLandmarks) > 0
    /\ Len(hist.prevHands) > 0
    /\ SameShape(latestHandsLandmarks, hist.prevHands)

\* C14: a hand snapshot identical to the previous one has movement energy 0
\* and yields no hand message; a snapshot of the same hands that differs from
\* the previous one at exactly one landmark, by (dx, dy), has movement energy
\* dx * dx + dy * dy and yields the hand message exactly when that exceeds
\* 0.02.
C14_HandEnergy ==
    HandsCompared =>
        LET cur == latestHandsLandmarks
            prev == hist.prevHands
        IN  /\ Moved(cur, prev) = {} =>
                  /\ movementEnergy(cur, prev, 1) = 0
                  /\ MsgHands \notin Range(hist.lastOutput)
            /\ \A ij \in Moved(cur, prev) :
                  Moved(cur, prev) = {ij} =>
                      LET dx == cur[ij[1]][ij[2]].x - prev[ij[1]][ij[2]].x
                          dy == cur[ij[1]][ij[2]].y - prev[ij[1]][ij[2]].y
                      IN  /\ movementEnergy(cur, prev, 1) = dx * dx + dy * dy
                          /\ MsgHands \in Range(hist.lastOutput)
                                <=> dx * dx + dy * dy > MovementThreshold

\* One landmark has moved by (0.1, 0.1): the energy is 0.02 exactly and the
\* hand message is not in the output.
C14_Witness ==
    /\ HandsCompared
    /\ hist.prevHands = <<HandTo(350, 500)>>
    /\ latestHandsLandmarks = <<HandTo(450, 600)>>
    /\ MsgHands \notin Range(hist.lastOutput)

\* C15: the yawn counter never decreases; the output of a frame holds the yawn
\* message exactly when the counter, after that frame's detection, exceeds 2;
\* so from the third yawn on every frame emits it and it is visible after
\* every frame.
C15_YawnCumulative ==
    [][/\ yawnCount' >= yawnCount
       /\ MsgYawn \in Range(hist'.lastOutput) <=> yawnCount' > YawnLimit
       /\ yawnCount > YawnLimit =>
             MsgYawn \in Range(hist'.lastOutput) /\ MsgYawn \in Range(feedbackMsgs')]_vars

\* After the third yawn a frame with the mouth closed has cleared the latch:
\* the counter is still 3, the message emitted again and visible.
C15_Witness ==
    /\ yawnCount = 3
    /\ ~isYawning
    /\ Len(latestFaceLandmarks) > 0
    /\ MsgYawn \in Range(hist.lastOutput)
    /\ MsgYawn \in Visible

(***************************************************************************)
(* A run long enough for the blink rate: face frames with a low aperture   *)
(* 301 ms apart, each counted as a blink, and a pause of 60001 ms after    *)
(* which the face is back or is lost.                                      *)
(***************************************************************************)
RateFrames ==
    {[face |-> <<Face(229, 50, 500, 50)>>, d |-> 301],
     [face |-> <<Face(229, 50, 500, 50)>>, d |-> 60001],
     [face |-> <<>>, d |-> 60001]}

NextRate == \E f \in RateFrames : FaceFrame(f.face, f.d, MaxRateFrames, MaxRateTime)

SpecRate == Init /\ [][NextRate]_vars

\* The counted blinks less than 60000 ms before the last frame.
BlinksInWindow ==
    Cardinality({i \in 1..Len(hist.allBlinks) :
                    hist.updNow - hist.allBlinks[i] < BlinkWindow})

\* C16: the output of a frame holds the blink-rate message exactly when more
\* than 20 blinks were counted in the 60000 ms before that frame.
C16_BlinkRateExact ==
    Updated =>
        (MsgBlink \in Range(hist.lastOutput) <=> BlinksInWindow > BlinkRateLimit)

(***************************************************************************)
(* Face results for the gaze: both irises at 0.34, 0.35, 0.50, 0.65 and    *)
(* 0.66 of the eye width; the left iris at 0.09 or 0.10 with the right one *)
(* at 0.60 (averages 0.345 and 0.35); a face without the left iris; no     *)
(* face.                                                                   *)
(***************************************************************************)
GazeFace(iris) == Face(230, 0, 500, iris)

LeftIrisAt(face, iris) == [face EXCEPT ![468] = Pt(450 - iris, 400)]

GazeFaces ==
    {<<>>, <<GazeFace(34)>>, <<GazeFace(35)>>, <<GazeFace(50)>>, <<GazeFace(65)>>,
     <<GazeFace(66)>>, <<LeftIrisAt(GazeFace(60), 9)>>,
     <<LeftIrisAt(GazeFace(60), 10)>>, <<Without(GazeFace(34), {468})>>}

NextGaze == \E r \in GazeFaces : OnFaceMeshResults(r, 100)

SpecGaze == Init /\ [][NextGaze]_vars

\* Twice the denominator and the numerator of the average of the two eyes'
\* irisPos = (iris.x - inner.x) / (outer.x - inner.x), as one fraction.
IrisDen(face) == 2 * (face[33].x - face[133].x) * (face[263].x - face[362].x)

IrisNum(face) ==
    (face[468].x - face[133].x) * (face[263].x - face[362].x)
        + (face[473].x - face[362].x) * (face[33].x - face[133].x)

\* The average irisPos is below, or above, pct / 100.
AvgIrisBelow(face, pct) ==
    IF IrisDen(face) > 0 THEN 100 * IrisNum(face) < pct * IrisDen(face)
    ELSE 100 * IrisNum(face) > pct * IrisDen(face)

AvgIrisAbove(face, pct) ==
    IF IrisDen(face) > 0 THEN 100 * IrisNum(face) > pct * IrisDen(face)
    ELSE 100 * IrisNum(face) < pct * IrisDen(face)

\* C17: for a face holding all six eye points (the eyes of non-zero width),
\* the output holds the looking-left message exactly when the average irisPos
\* is below 0.35 and the looking-right message exactly when it is above 0.65;
\* for a face lacking one of the six it holds neither.
C17_GazeThresholds ==
    Updated /\ Len(latestFaceLandmarks) > 0 =>
        LET face == latestFaceLandmarks[1]
            out == Range(hist.lastOutput)
        IN  IF Lacks(latestFaceLandmarks, GazePoints)
            THEN MsgLookLeft \notin out /\ MsgLookRight \notin out
            ELSE IrisDen(face) # 0 =>
                    /\ MsgLookLeft \in out <=> AvgIrisBelow(face, 35)
                    /\ MsgLookRight \in out <=> AvgIrisAbove(face, 65)

\* The irises at 0.09 and 0.60 of their eyes average 0.345: looking left.
C17_Witness ==
    /\ Updated
    /\ latestFaceLandmarks = <<LeftIrisAt(GazeFace(60), 9)>>
    /\ MsgLookLeft \in Range(hist.lastOutput)

NoseBelow(faces) == Len(faces) > 0 /\ Has(faces[1], 1) /\ faces[1][1].x < NoseLow

NoseAbove(faces) == Len(faces) > 0 /\ Has(faces[1], 1) /\ faces[1][1].x > NoseHigh

\* C18: every result callback (every step here is one) that delivers a face
\* with the nose tip left of 0.35 completes its frame with the move-right
\* message in the output, and with the nose tip right of 0.65 with the
\* move-left message, whatever else the face holds.
C18_NoseAlwaysReported ==
    [][/\ NoseBelow(latestFaceLandmarks') =>
             pending' = pending + 1 /\ MsgMoveRight \in Range(hist'.lastOutput)
       /\ NoseAbove(latestFaceLandmarks') =>
             pending' = pending + 1 /\ MsgMoveLeft \in Range(hist'.lastOutput)]_vars

(***************************************************************************)
(* Pose results: the shoulders 0.15, 0.05 and 0.10 apart in height, either *)
(* one the lower; a pose without the right shoulder; no pose.              *)
(***************************************************************************)
PoseSnapshots ==
    {<<>>, <<Pose(400, 550)>>, <<Pose(550, 400)>>, <<Pose(400, 450)>>,
     <<Pose(400, 500)>>, <<Without(Pose(400, 550), {12})>>}

PoseSteps == {100, 3001}

NextPose == \E r \in PoseSnapshots, d \in PoseSteps : OnPoseResults(r, d)

SpecPose == Init /\ [][NextPose]_vars

\* The shoulders of the current pose snapshot are both present and differ in
\* height by more than 0.1.
Tilted ==
    /\ Len(latestPoseLandmarks) > 0
    /\ Has(latestPoseLandmarks[1], 11)
    /\ Has(latestPoseLandmarks[1], 12)
    /\ \/ latestPoseLandmarks[1][11].y - latestPoseLandmarks[1][12].y > TiltThreshold
       \/ latestPoseLandmarks[1][12].y - latestPoseLandmarks[1][11].y > TiltThreshold

\* C19: the output of a frame holds the posture message exactly when the
\* current pose snapshot is tilted, whatever the earlier frames were.
C19_PostureFromSnapshot ==
    Updated => (MsgLeaning \in Range(hist.lastOutput) <=> Tilted)

\* A frame with the shoulders 0.05 apart right after a tilted one: the
\* message is not emitted, though still visible from the frame before.
C19_Witness ==
    /\ Updated
    /\ latestPoseLandmarks = <<Pose(400, 450)>>
    /\ MsgLeaning \notin Range(hist.lastOutput)
    /\ MsgLeaning \in Visible

\* C20: when the current snapshot holds more hands than the previous one,
\* the hands without a counterpart add nothing: the movement energy is that
\* of the hands both snapshots hold, and the hand message follows it.
C20_MissingCounterpartZero ==
    /\ Updated
    /\ Len(hist.prevHands) > 0
    /\ Len(latestHandsLandmarks) > Len(hist.prevHands)
    =>
        LET prev == hist.prevHands
            shared == SubSeq(latestHandsLandmarks, 1, Len(prev))
        IN  /\ movementEnergy(latestHandsLandmarks, prev, 1)
                  = movementEnergy(shared, prev, 1)
            /\ MsgHands \in Range(hist.lastOutput)
                  <=> movementEnergy(shared, prev, 1) > MovementThreshold

\* The blink history before a frame at time now, pruned to the window.
PrunedHistory(now) == SelectSeq(blinkHistory, LAMBDA t : now - t < BlinkWindow)

\* At least 300 ms lie between the last counted blink, if any, and now.
DebounceOver(now) ==
    \/ hist.allBlinks = <<>>
    \/ now - hist.allBlinks[Len(hist.allBlinks)] >= BlinkDebounce

\* C21: every result callback that delivers a face (every step here is a face
\* result) counts a blink exactly when the aperture is below 0.23 and at
\* least 300 ms have passed since the previous counted blink; a counted blink
\* appends the time to the pruned blinkHistory and sets lastBlinkTime to it;
\* otherwise lastBlinkTime is unchanged and blinkHistory is only pruned.
C21_BlinkFiresExactly ==
    [][Len(latestFaceLandmarks') > 0 =>
          /\ blinkCount' > blinkCount
                <=> LowAperture(latestFaceLandmarks'[1]) /\ DebounceOver(clock')
          /\ blinkCount' > blinkCount =>
                /\ lastBlinkTime' = clock'
                /\ blinkHistory' = Append(PrunedHistory(clock'), clock')
          /\ blinkCount' = blinkCount =>
                /\ lastBlinkTime' = lastBlinkTime
                /\ blinkHistory' = PrunedHistory(clock')]_vars

\* C22: after a frame with at least one hand lastHandPositions is that
\* frame's hand snapshot, whether or not the hand message was emitted; after
\* a frame with no hands it is what it was before the frame.
C22_LastHandPositions ==
    Updated =>
        IF Len(latestHandsLandmarks) > 0
        THEN lastHandPositions = latestHandsLandmarks
        ELSE lastHandPositions = hist.prevHands

\* The hand message fired for a landmark moved by 0.142, and the moved
\* snapshot is the one stored.
C22_Witness ==
    /\ Updated
    /\ hist.prevHands = <<HandTo(350, 500)>>
    /\ latestHandsLandmarks = <<HandTo(350, 642)>>
    /\ MsgHands \in Range(hist.lastOutput)
    /\ lastHandPositions = <<HandTo(350, 642)>>

(***************************************************************************)
(* Frames on which several tests hold at once: a face with a low aperture, *)
(* the nose tip at 0.2 and the irises at 0.20, its mouth open or closed,   *)
(* 301 ms apart; tilted shoulders; a hand that moves one landmark.         *)
(***************************************************************************)
OutputFaces == {<<Face(229, 51, 200, 20)>>, <<Face(229, 50, 200, 20)>>}

OutputHands == {<<HandTo(350, 500)>>, <<HandTo(350, 642)>>}

NextOutput ==
    \/ \E r \in OutputFaces : FaceFrame(r, 301, MaxRateFrames, MaxRateTime)
    \/ OnPoseResults(<<Pose(400, 550)>>, 301)
    \/ \E r \in OutputHands : OnHandsResults(r, 301)

SpecOutput == Init /\ [][NextOutput]_vars

\* The number of entries of the last output that are messages of the set.
CountIn(msgs) ==
    Cardinality({i \in 1..Len(hist.lastOutput) : hist.lastOutput[i] \in msgs})

\* C23 as stated: each of the four extractors (gaze with head position,
\* blink / yawn, posture, hand motion) has at most one message in the output
\* of a frame, and no message string occurs twice.
C23_OnePerExtractor ==
    Updated =>
        /\ CountIn({MsgMoveRight, MsgMoveLeft, MsgLookLeft, MsgLookRight}) <= 1
        /\ CountIn({MsgBlink, MsgYawn}) <= 1
        /\ CountIn({MsgLeaning}) <= 1
        /\ CountIn({MsgHands}) <= 1
        /\ \A m \in Messages : CountIn({m}) <= 1

\* C23 amended: the output of a frame holds at most one head-position
\* message, at most one gaze message, and each of the blink-rate, yawn,
\* posture and hand messages at most once; no message string occurs twice,
\* and every entry is a message of the catalog.
C23_OnePerTest ==
    Updated =>
        /\ CountIn({MsgMoveRight, MsgMoveLeft}) <= 1
        /\ CountIn({MsgLookLeft, MsgLookRight}) <= 1
        /\ \A m \in Messages : CountIn({m}) <= 1
        /\ Range(hist.lastOutput) \subseteq Messages

\* Two messages of the gaze extractor and two of the blink / yawn extractor
\* in one output, with the posture message.
C23_Witness ==
    /\ Updated
    /\ {MsgMoveRight, MsgLookLeft, MsgBlink, MsgYawn, MsgLeaning}
          \subseteq Range(hist.lastOutput)

\* C24: after an update at time now, every message that was tracked with an
\* expiry not earlier than now and is not in the frame's output is still
\* tracked with the same expiry, and the list handed to the display holds
\* exactly the keys of the stored map, each once.
C24_UntouchedExpiries ==
    Updated =>
        /\ \A i \in 1..Len(hist.prevTimers) :
              /\ hist.prevTimers[i].msg \notin Range(hist.lastOutput)
              /\ hist.prevTimers[i].expiry >= hist.updNow
              => /\ hist.prevTimers[i].msg \in Tracked
                 /\ ExpiryOf(feedbackTimers, hist.prevTimers[i].msg)
                       = hist.prevTimers[i].expiry
        /\ Visible = Tracked
        /\ Len(feedbackMsgs) = Cardinality(Tracked)

\* An update re-armed one message and left another, not emitted and not yet
\* expired, with the expiry it had; both are displayed.
C24_Witness ==
    /\ Updated
    /\ hist.lastOutput # <<>>
    /\ Len(feedbackMsgs) = 2
    /\ \E i \in 1..Len(hist.prevTimers) :
          /\ hist.prevTimers[i].msg \notin Range(hist.lastOutput)
          /\ hist.prevTimers[i].expiry > hist.updNow
          /\ hist.prevTimers[i].expiry < hist.updNow + FeedbackTTL
          /\ ExpiryOf(feedbackTimers, hist.prevTimers[i].msg) = hist.prevTimers[i].expiry

====
